---------------------------- MODULE Spec2Model ----------------------------
(***************************************************************************)
(* YASMI: a hierarchical state machine engine on asyncio (src/yasmi.py)    *)
(* and the example hierarchy of src/state_machine_1.py, driven as by       *)
(* src/tests/test_state_machine.py.                                        *)
(*                                                                         *)
(* The asyncio event loop is modelled as it runs: a FIFO queue of ready    *)
(* task steps; one Step runs the task at the head from its suspension      *)
(* point to the next one.  Task.cancel() follows the chain of awaited      *)
(* futures as asyncio does, and a CancelledError is delivered where the    *)
(* task is suspended.                                                      *)
(***************************************************************************)
EXTENDS Integers, Sequences, FiniteSets, TLC

(***************************************************************************)
(* Bounds of the model.                                                    *)
(***************************************************************************)
MaxTasks == 9
MaxQueue == 2
MaxX == 2
MaxPublish == 3
MaxSubscribe == 2

(***************************************************************************)
(* Events (state_machine_1.py, class Events).  EVX is an int that no queue *)
(* subscribes to.                                                          *)
(***************************************************************************)
EV0 == 0
EV1 == 1
EV2 == 2
EV3 == 3
EV4 == 4
EVAF == 5
EVBF == 6
\* Event = int, so any other int is an event too (yasmi.py, line 10).
EVX == EVBF + 1

(***************************************************************************)
(* The state objects, one per class of state_machine_1.py.                 *)
(***************************************************************************)
NoState == "None"
StateMachine == "StateMachine"
StateMachine_i == "StateMachine_i"
StateMachineA == "StateMachineA"
StateMachineA_i == "StateMachineA_i"
StateMachineA_f == "StateMachineA_f"
StateAA == "StateAA"
StateAB == "StateAB"
StateMachineB == "StateMachineB"
StateMachineB_i == "StateMachineB_i"
StateMachineB_f == "StateMachineB_f"
StateBA == "StateBA"
StateBB == "StateBB"

Machines == {StateMachine, StateMachineA, StateMachineB}

States ==
    Machines \cup {StateMachine_i, StateMachineA_i, StateMachineA_f, StateAA,
                   StateAB, StateMachineB_i, StateMachineB_f, StateBA, StateBB}

IsMachine(s) == s \in Machines

\* State.__init__(is_final): only the two _f classes pass is_final=True.
is_final(s) == s \in {StateMachineA_f, StateMachineB_f}

\* Machine.__init__(history=...): only StateMachineB passes history=True.
has_history(m) == m = StateMachineB

\* Machine.__init__(initial=...).
initial(m) ==
    CASE m = StateMachine -> StateMachine_i
      [] m = StateMachineA -> StateMachineA_i
      [] m = StateMachineB -> StateMachineB_i

\* Machine.__init__(final=...): the root machine has none.
final(m) ==
    CASE m = StateMachine -> NoState
      [] m = StateMachineA -> StateMachineA_f
      [] m = StateMachineB -> StateMachineB_f

\* The sub-states each machine constructs (its initial and final included).
SubStates(m) ==
    CASE m = StateMachine -> {StateMachine_i, StateMachineA, StateMachineB}
      [] m = StateMachineA -> {StateMachineA_i, StateMachineA_f, StateAA, StateAB}
      [] m = StateMachineB -> {StateMachineB_i, StateMachineB_f, StateBA, StateBB}

\* The name `log` is bound nowhere in state_machine_1.py (it imports logging
\* and never defines log), so evaluating log.debug raises NameError.
LogIsBound == FALSE

(***************************************************************************)
(* The registry holds classes (type(self)); exit() tests the instance.     *)
(***************************************************************************)
TypeOf(s) == [kind |-> "type", cls |-> s]
Instance(s) == [kind |-> "instance", cls |-> s]

(***************************************************************************)
(* Tasks.  0 stands for None.                                              *)
(***************************************************************************)
NoTask == 0
TaskIds == 1..MaxTasks
RootTask == 1

FreeTask ==
    [kind |-> "free", owner |-> NoState, pc |-> "none", status |-> "free",
     wait |-> NoTask, getter |-> "none", must_cancel |-> FALSE,
     waiters |-> <<>>, cur |-> NoState, sub |-> NoState, dst |-> NoState,
     act |-> FALSE, steps |-> <<>>]

NewTask(kind, owner) ==
    [FreeTask EXCEPT !.kind = kind, !.owner = owner, !.pc = "start",
                     !.status = "pending"]

VARIABLES
    event_subscribers,  \* yasmi._event_subscribers: event -> queues, in the
                        \*   iteration order of the set
    active_states,      \* State._active_states
    do_task,            \* State.do_task, per state object
    manage_task,        \* Machine.manage_task
    state,              \* Machine.state
    history_state,      \* Machine.history_state
    event_queue,        \* Machine.event_queue: the items of the asyncio.Queue
    getters,            \* the Queue's pending getter futures, by awaiting task
    x,                  \* StateMachineA.x
    tasks,              \* the asyncio tasks
    ready,              \* the event loop's FIFO of ready task steps
    published,          \* how many events the driver has published
    driver,             \* the test's own task: "running", "awaiting", "done",
                        \*   "KeyError", "NameError"
    entered,            \* history: states whose enter() has completed and
                        \*   whose exit() has not completed since
    landed,             \* history: per machine, the destination its manage()
                        \*   entered first since the machine's do()
    exitedFrom,         \* history: per machine, the sub-state that was active
                        \*   when the machine was last transitioned away from
    resumeFrom,         \* history: per machine, exitedFrom as it was at the
                        \*   machine's last do()
    staleFired,         \* history: an event that was in a machine's queue
                        \*   when the machine was entered has triggered a
                        \*   transition
    subscriptions,      \* history: how many times each queue has been
                        \*   subscribed to each event
    exitRuns,           \* history: per state, how many times exit_() has run
                        \*   in the state's latest call of exit()
    scriptPos           \* history: how far the test's script has been
                        \*   followed, -1 once the driver has left it

\* What the engine's operators read and write.
progVars ==
    <<event_subscribers, active_states, do_task, manage_task, state,
      history_state, event_queue, getters, x, tasks, ready, entered, landed,
      exitedFrom, resumeFrom, staleFired, subscriptions, exitRuns>>

vars == <<progVars, published, driver, scriptPos>>

\* The program state as one record, for the operators below.
Cur ==
    [event_subscribers |-> event_subscribers, active_states |-> active_states,
     do_task |-> do_task, manage_task |-> manage_task, state |-> state,
     history_state |-> history_state, event_queue |-> event_queue,
     getters |-> getters, x |-> x, tasks |-> tasks, ready |-> ready,
     entered |-> entered, landed |-> landed, exitedFrom |-> exitedFrom,
     resumeFrom |-> resumeFrom, staleFired |-> staleFired,
     subscriptions |-> subscriptions, exitRuns |-> exitRuns,
     overflow |-> FALSE]

Becomes(st) ==
    /\ ~st.overflow
    /\ event_subscribers' = st.event_subscribers
    /\ active_states' = st.active_states
    /\ do_task' = st.do_task
    /\ manage_task' = st.manage_task
    /\ state' = st.state
    /\ history_state' = st.history_state
    /\ event_queue' = st.event_queue
    /\ getters' = st.getters
    /\ x' = st.x
    /\ tasks' = st.tasks
    /\ ready' = st.ready
    /\ entered' = st.entered
    /\ landed' = st.landed
    /\ exitedFrom' = st.exitedFrom
    /\ resumeFrom' = st.resumeFrom
    /\ staleFired' = st.staleFired
    /\ subscriptions' = st.subscriptions
    /\ exitRuns' = st.exitRuns

(***************************************************************************)
(* Helpers on sequences and sets.                                          *)
(***************************************************************************)
Range(f) == {f[i] : i \in DOMAIN f}

Without(seq, e) == SelectSeq(seq, LAMBDA y : y # e)

MinOf(S) == CHOOSE i \in S : \A j \in S : i <= j

\* All orders in which the members of a set can be iterated.
Orders(S) ==
    {q \in [1..Cardinality(S) -> S] : \A i, j \in DOMAIN q : i # j => q[i] # q[j]}

(***************************************************************************)
(* Event bus.                                                              *)
(***************************************************************************)
\* subscribe_to(events, event_queue), on a map event -> set of queues.
subscribe_to(subs, events, q) ==
    [e \in DOMAIN subs \cup events |->
        IF e \in events
        THEN (IF e \in DOMAIN subs THEN subs[e] ELSE {}) \cup {q}
        ELSE subs[e]]

\* _event_subscribers once StateMachine() is constructed: Machine.__init__ of
\* the root runs the constructors of A and B first, then its own subscribe_to.
EmptySubscribers == [e \in {} |-> {}]

ConstructedSubscribers ==
    subscribe_to(
        subscribe_to(
            subscribe_to(EmptySubscribers, {EV1, EV2}, StateMachineA),
            {EV3, EV4}, StateMachineB),
        {EV0, EV1, EVAF, EVBF}, StateMachine)

\* The sets of queues behind the iteration orders, and back: every way the
\* sets of a subscriber map can be iterated.
SetsOf(subs) == [e \in DOMAIN subs |-> Range(subs[e])]

RECURSIVE OrdersOver(_, _)
OrdersOver(sets, D) ==
    IF D = {} THEN {EmptySubscribers}
    ELSE LET e == CHOOSE d \in D : TRUE
         IN  {g @@ (e :> o) : g \in OrdersOver(sets, D \ {e}),
                               o \in Orders(sets[e])}

IterationOrders(sets) == OrdersOver(sets, DOMAIN sets)

(***************************************************************************)
(* The event loop: call_soon, futures' callbacks, task creation.           *)
(***************************************************************************)
\* The smallest task slot not in use, NoTask when there is none.
AllocId(st) ==
    LET free == {i \in TaskIds : st.tasks[i].kind = "free"}
    IN  IF free = {} THEN NoTask ELSE MinOf(free)

\* asyncio.create_task(coro): the task's first step is scheduled.
create_task(st, id, kind, owner) ==
    IF id = NoTask
    THEN [st EXCEPT !.overflow = TRUE]
    ELSE [st EXCEPT !.tasks[id] = NewTask(kind, owner),
                    !.ready = Append(@, id)]

\* The task's coroutine has returned or raised: the future is done and its
\* callbacks (the wake-ups of the tasks awaiting it) are scheduled in the
\* order they were added.
Finish(st, t, status) ==
    [st EXCEPT !.tasks[t] = [FreeTask EXCEPT !.kind = st.tasks[t].kind,
                                             !.owner = st.tasks[t].owner,
                                             !.pc = "done",
                                             !.status = status],
               !.ready = @ \o st.tasks[t].waiters]

\* `await fut` on a future that is not done: the task suspends on it.
Await(st, t, d, pc) ==
    [st EXCEPT !.tasks[t].pc = pc, !.tasks[t].wait = d,
               !.tasks[d].waiters = Append(@, t)]

\* Task.cancel(): False if done; else the cancellation is handed to the
\* future the task awaits, and only if that refuses (it is done already) or
\* the task awaits nothing is _must_cancel set.
RECURSIVE CancelTask(_, _)
CancelTask(st, t) ==
    LET rec == st.tasks[t]
    IN  IF rec.status # "pending" THEN [st |-> st, ok |-> FALSE]
        ELSE IF rec.wait # NoTask
        THEN LET r == CancelTask(st, rec.wait)
             IN  IF r.ok THEN [st |-> r.st, ok |-> TRUE]
                 ELSE [st |-> [st EXCEPT !.tasks[t].must_cancel = TRUE],
                       ok |-> TRUE]
        ELSE IF rec.getter = "pending"
        THEN [st |-> [st EXCEPT !.tasks[t].getter = "cancelled",
                                !.ready = Append(@, t)],
              ok |-> TRUE]
        ELSE [st |-> [st EXCEPT !.tasks[t].must_cancel = TRUE], ok |-> TRUE]

\* Queue._wakeup_next(self._getters): the first getter that is not done gets
\* its result and its task is scheduled.
RECURSIVE WakeupNext(_, _)
WakeupNext(st, q) ==
    IF st.getters[q] = <<>> THEN st
    ELSE LET t == Head(st.getters[q])
             popped == [st EXCEPT !.getters[q] = Tail(@)]
         IN  IF st.tasks[t].getter = "pending"
             THEN [popped EXCEPT !.tasks[t].getter = "set",
                                 !.ready = Append(@, t)]
             ELSE WakeupNext(popped, q)

\* Queue.put_nowait(event).
put_nowait(st, q, e) ==
    WakeupNext([st EXCEPT !.event_queue[q] =
                    Append(@, [ev |-> e, stale |-> FALSE])], q)

\* A publish that would serve the first subscriber only.
PublishToFirst(st, qs, e) ==
    IF qs = <<>> THEN st ELSE put_nowait(st, Head(qs), e)

\* publish(event), for an event in _event_subscribers.
RECURSIVE PublishTo(_, _, _)
PublishTo(st, qs, e) ==
    IF qs = <<>> THEN st
    ELSE PublishTo(put_nowait(st, Head(qs), e), Tail(qs), e)

publish(st, e) == PublishTo(st, st.event_subscribers[e], e)

(***************************************************************************)
(* State and Machine.                                                      *)
(***************************************************************************)
\* State.guard: the default, which no class of the example overrides.
guard(s) == TRUE

\* State.enter and its overrides in StateMachineA_f, StateMachineB_f, StateAA.
\* (History only: the events already in a machine's queue are marked stale.)
enter(st, s) ==
    LET base == [st EXCEPT !.active_states = @ \cup {TypeOf(s)},
                           !.entered = @ \cup {s}]
        marked == IF IsMachine(s)
                  THEN [base EXCEPT !.event_queue[s] =
                            [i \in DOMAIN @ |-> [@[i] EXCEPT !.stale = TRUE]]]
                  ELSE base
    IN  CASE s = StateMachineA_f -> publish(marked, EVAF)
          [] s = StateMachineB_f -> publish(marked, EVBF)
          [] s = StateAA ->
                [marked EXCEPT !.x = IF @ < MaxX THEN @ + 1 ELSE @]
          [] OTHER -> marked

\* State.do / Machine.do: self.do_task = create_task(self._do()).
do(st, s) ==
    LET id == AllocId(st)
        made == create_task(st, id, IF IsMachine(s) THEN "mdo" ELSE "sdo", s)
    IN  IF IsMachine(s)
        THEN [made EXCEPT !.do_task[s] = id, !.landed[s] = NoState,
                          !.resumeFrom[s] = st.exitedFrom[s]]
        ELSE [made EXCEPT !.do_task[s] = id]

\* A Machine.exit_ that would reset history_state together with self.state.
exit_clearing_history(st, s) ==
    IF IsMachine(s) /\ initial(s) # NoState
    THEN [st EXCEPT !.state[s] = initial(s), !.history_state[s] = NoState,
                    !.exitRuns[s] = @ + 1]
    ELSE [st EXCEPT !.exitRuns[s] = @ + 1]

\* A Machine.exit_ that would leave self.state as it is.
exit_keeping_state(st, s) == [st EXCEPT !.exitRuns[s] = @ + 1]

\* State.exit_ (pass) and Machine.exit_ (self.state = self.initial).
exit_(st, s) ==
    IF IsMachine(s) /\ initial(s) # NoState
    THEN [st EXCEPT !.state[s] = initial(s), !.exitRuns[s] = @ + 1]
    ELSE [st EXCEPT !.exitRuns[s] = @ + 1]

\* The test of State.exit, line 188: `self in State._active_states`.
InRegistry(st, s) == Instance(s) \in st.active_states

\* State.exit after its await (lines 186-189), and for a Machine the second
\* exit_() of Machine.exit (line 306).
ExitTail(st, s) ==
    LET a == exit_(st, s)
        b == IF InRegistry(a, s)
             THEN [a EXCEPT !.active_states = @ \ {TypeOf(s)}]
             ELSE a
        c == IF IsMachine(s) THEN exit_(b, s) ELSE b
    IN  [c EXCEPT !.entered = @ \ {s}]

(***************************************************************************)
(* The transition tables of the example machines (manage's if/elif).       *)
(***************************************************************************)
\* A table that would consult no guard and take EV1 for EV0 in the root.
GuardedTableLoose(m, s, e, g) ==
    IF m = StateMachine /\ s = StateMachineA /\ e \in {EV0, EV1, EVAF}
    THEN StateMachineB ELSE NoState

\* The if/elif of the three manage loops, g being what self.guard() returns.
GuardedTable(m, s, e, g) ==
    CASE m = StateMachine ->
            IF s = StateMachineA
            THEN (IF (e = EV0 /\ g) \/ e = EVAF
                  THEN StateMachineB ELSE NoState)
            ELSE IF s = StateMachineB
            THEN (IF (e = EV1 /\ g) \/ e = EVBF
                  THEN StateMachineA ELSE NoState)
            ELSE NoState
      [] m = StateMachineA ->
            IF s = StateAA
            THEN (IF e = EV1 THEN StateAB ELSE NoState)
            ELSE IF s = StateAB
            THEN (IF e = EV1 THEN final(m)
                  ELSE IF e = EV2 THEN StateAA ELSE NoState)
            ELSE NoState
      [] m = StateMachineB ->
            IF s = StateBA
            THEN (IF e = EV3 THEN StateBB
                  ELSE IF e = EV4 THEN final(m) ELSE NoState)
            ELSE IF s = StateBB
            THEN (IF e = EV3 THEN final(m) ELSE NoState)
            ELSE NoState

Table(m, s, e) == GuardedTable(m, s, e, guard(m))

\* The destination of manage's first transition.
EntryDestination(st, m) ==
    CASE m = StateMachine -> StateMachineA
      [] m = StateMachineA ->
            IF st.history_state[m] # NoState THEN st.history_state[m]
            ELSE IF st.x = 0 THEN StateAA ELSE StateAB
      [] m = StateMachineB ->
            IF st.history_state[m] # NoState THEN st.history_state[m]
            ELSE StateBA

(***************************************************************************)
(* A manage() coroutine, run from where it is to its next suspension.      *)
(* The task's cur, sub, dst, act are the locals of the transition_to call  *)
(* in progress: self, self.state as read at line 262, new_state, and       *)
(* whether an action was passed.                                           *)
(***************************************************************************)
RECURSIVE ExitState(_, _, _)
RECURSIVE AfterExit(_, _, _)
RECURSIVE Loop(_, _)
RECURSIVE BeginTransition(_, _, _, _, _)

ExitTarget(st, t, pc) ==
    IF pc = "exit_sub" THEN st.tasks[t].sub ELSE st.tasks[t].cur

\* State.exit up to its await (lines 178-184).  Awaiting a task that is done
\* does not suspend: it returns, or raises what the task raised, and a
\* CancelledError is passed over.
ExitState(st0, t, pc) ==
    LET s == ExitTarget(st0, t, pc)
        st == [st0 EXCEPT !.exitRuns[s] = 0]
        d == st.do_task[s]
    IN  IF d = NoTask THEN AfterExit(st, t, pc)
        ELSE LET c == CancelTask(st, d).st
             IN  CASE c.tasks[d].status = "pending" -> Await(c, t, d, pc)
                   [] c.tasks[d].status = "error" -> Finish(c, t, "error")
                   [] OTHER -> AfterExit(c, t, pc)

\* History: the steps State.transition_to has taken in the call task t is
\* in, in the order it took them.
Logged(st, t, step) == [st EXCEPT !.tasks[t].steps = Append(@, step)]

\* State.action: the default (pass), which no class of the example overrides.
action(st, t) == Logged(st, t, "action")

\* A State.transition_to that would enter the destination before it invokes
\* the action.
FinishTransitionEnterFirst(st, t) ==
    LET m == st.tasks[t].owner
        dst == st.tasks[t].dst
        a == Logged(enter(st, dst), t, "enter")
        acted == IF st.tasks[t].act THEN action(a, t) ELSE a
        b == IF is_final(dst) THEN acted ELSE Logged(do(acted, dst), t, "do")
    IN  [b EXCEPT !.state[m] = dst,
                  !.landed[m] = IF st.tasks[t].act THEN @ ELSE dst]

\* A State.transition_to that would start the activity of a final state too.
FinishTransitionAlwaysDo(st, t) ==
    LET m == st.tasks[t].owner
        dst == st.tasks[t].dst
        acted == IF st.tasks[t].act THEN action(st, t) ELSE st
        a == Logged(enter(acted, dst), t, "enter")
        b == Logged(do(a, dst), t, "do")
    IN  [b EXCEPT !.state[m] = dst,
                  !.landed[m] = IF st.tasks[t].act THEN @ ELSE dst]

\* State.transition_to, lines 138-146, and the caller's self.state = ...
FinishTransition(st, t) ==
    LET m == st.tasks[t].owner
        dst == st.tasks[t].dst
        acted == IF st.tasks[t].act THEN action(st, t) ELSE st
        a == Logged(enter(acted, dst), t, "enter")
        b == IF is_final(dst) THEN a ELSE Logged(do(a, dst), t, "do")
    IN  [b EXCEPT !.state[m] = dst,
                  !.landed[m] = IF st.tasks[t].act THEN @ ELSE dst]

\* `await self.exit()` has returned (line 136 of State.transition_to, or line
\* 262 of Machine.transition_to).
AfterExit(st, t, pc) ==
    LET done == ExitTail(st, ExitTarget(st, t, pc))
    IN  IF pc = "exit_sub" THEN ExitState(done, t, "exit_cur")
        ELSE Loop(FinishTransition(Logged(done, t, "exit"), t), t)

\* What Machine.transition_to records as history_state (lines 258-260) when
\* machine m is left with sub-state s active.
HistoryOf(m, s) == IF has_history(m) /\ ~is_final(s) THEN s ELSE NoState

\* Machine.transition_to (lines 258-263) when self is a Machine, else
\* State.transition_to (line 136).
BeginTransition(st, t, cur, dst, act) ==
    LET loc == [st EXCEPT !.tasks[t].cur = cur, !.tasks[t].dst = dst,
                          !.tasks[t].act = act, !.tasks[t].steps = <<>>,
                          !.tasks[t].sub =
                              IF IsMachine(cur) THEN st.state[cur] ELSE NoState]
    IN  IF IsMachine(cur)
        THEN ExitState(
                [loc EXCEPT !.history_state[cur] =
                                HistoryOf(cur, st.state[cur]),
                            !.exitedFrom[cur] = st.state[cur]],
                t, "exit_sub")
        ELSE ExitState(loc, t, "exit_cur")

\* The while True loop of manage: await self.event_queue.get(), which does
\* not suspend while the queue holds an item, then the if/elif table.
Loop(st, t) ==
    LET m == st.tasks[t].owner
    IN  IF st.event_queue[m] = <<>>
        THEN [st EXCEPT !.tasks[t].pc = "get", !.tasks[t].getter = "pending",
                        !.getters[m] = Append(@, t)]
        ELSE LET item == Head(st.event_queue[m])
                 got == [st EXCEPT !.event_queue[m] = Tail(@)]
                 dst == Table(m, got.state[m], item.ev)
             IN  IF dst = NoState THEN Loop(got, t)
                 ELSE BeginTransition(
                        [got EXCEPT !.staleFired = @ \/ item.stale],
                        t, got.state[m], dst, TRUE)

\* manage() from its first line.  StateMachineB.manage evaluates log.debug
\* first (line 100).
ManageStart(st, t) ==
    LET m == st.tasks[t].owner
    IN  IF m = StateMachineB /\ ~LogIsBound THEN Finish(st, t, "error")
        ELSE BeginTransition(st, t, st.state[m], EntryDestination(st, m), FALSE)

\* A CancelledError at `await self.event_queue.get()`: Queue.get's except
\* clause, then the except clause of manage: StateMachine re-raises, A and B
\* pass and return.
GetCancelled(st, t, wasSet) ==
    LET m == st.tasks[t].owner
        q == IF wasSet /\ st.event_queue[m] # <<>> THEN WakeupNext(st, m) ELSE st
    IN  Finish(q, t, IF m = StateMachine THEN "cancelled" ELSE "ok")

ManageResume(st, t, exc) ==
    LET pc == st.tasks[t].pc
        m == st.tasks[t].owner
    IN  CASE pc = "start" ->
                IF exc = "cancel" THEN Finish(st, t, "cancelled")
                ELSE ManageStart(st, t)
          [] pc = "get" ->
                LET off == [st EXCEPT !.getters[m] = Without(@, t),
                                      !.tasks[t].getter = "none"]
                IN  IF exc = "cancel"
                    THEN GetCancelled(off, t, st.tasks[t].getter = "set")
                    ELSE Loop(off, t)
          [] OTHER ->
                IF exc = "error" THEN Finish(st, t, "error")
                ELSE AfterExit(st, t, pc)

(***************************************************************************)
(* Machine._do and State._do.                                              *)
(***************************************************************************)
\* Machine._do, lines 267-277.
MachineDoResume(st, t, exc) ==
    LET m == st.tasks[t].owner
        pc == st.tasks[t].pc
    IN  CASE pc = "start" ->
                IF exc = "cancel" THEN Finish(st, t, "cancelled")
                ELSE LET id == AllocId(st)
                         made == create_task(st, id, "manage", m)
                     IN  IF id = NoTask THEN made
                         ELSE Await([made EXCEPT !.manage_task[m] = id],
                                    t, id, "await1")
          [] pc = "await1" ->
                IF exc = "none" THEN Finish(st, t, "ok")
                ELSE IF exc = "error" THEN Finish(st, t, "error")
                ELSE LET mt == st.manage_task[m]
                         c == CancelTask(st, mt).st
                         status == c.tasks[mt].status
                     IN  CASE status = "pending" -> Await(c, t, mt, "await2")
                           [] status = "ok" -> Finish(c, t, "ok")
                           [] OTHER -> Finish(c, t, status)
          [] OTHER ->
                Finish(st, t, IF exc = "none" THEN "ok"
                              ELSE IF exc = "cancel" THEN "cancelled"
                              ELSE "error")

\* State._do: while True: await sleep(0).
StateDoResume(st, t, exc) ==
    IF exc = "cancel" THEN Finish(st, t, "cancelled")
    ELSE [st EXCEPT !.tasks[t].pc = "loop", !.ready = Append(@, t)]

(***************************************************************************)
(* One step of the event loop: Task.__step of the task at the head.        *)
(***************************************************************************)
\* What the task is resumed with.
Delivered(st, t) ==
    LET rec == st.tasks[t]
    IN  IF rec.must_cancel THEN "cancel"
        ELSE IF rec.wait # NoTask
        THEN (CASE st.tasks[rec.wait].status = "cancelled" -> "cancel"
                [] st.tasks[rec.wait].status = "error" -> "error"
                [] OTHER -> "none")
        ELSE IF rec.getter = "cancelled" THEN "cancel"
        ELSE "none"

StepTask(st) ==
    LET t == Head(st.ready)
        exc == Delivered(st, t)
        run == [st EXCEPT !.ready = Tail(@), !.tasks[t].must_cancel = FALSE,
                          !.tasks[t].wait = NoTask]
    IN  CASE st.tasks[t].kind = "manage" -> ManageResume(run, t, exc)
          [] st.tasks[t].kind = "mdo" -> MachineDoResume(run, t, exc)
          [] OTHER -> StateDoResume(run, t, exc)

\* Tasks that are done and that nothing refers to any more are dropped.
Collect(st) ==
    LET held == Range(st.do_task) \cup Range(st.manage_task) \cup {RootTask}
                \cup {st.tasks[i].wait : i \in TaskIds}
    IN  [st EXCEPT !.tasks =
            [i \in TaskIds |->
                IF st.tasks[i].status # "pending" /\ i \notin held
                THEN FreeTask ELSE st.tasks[i]]]

(***************************************************************************)
(* The test's script (test_state_machine.py) and when processing has       *)
(* settled: nothing is ready but the idle loops of State._do.              *)
(***************************************************************************)
Script == <<EV0, EV1, EV1, EV3, EV1, EV0, EV3, EV0, EV1>>

Settled ==
    \A i \in 1..Len(ready) :
        /\ tasks[ready[i]].kind = "sdo"
        /\ tasks[ready[i]].pc = "loop"
        /\ ~tasks[ready[i]].must_cancel

\* The events the driver publishes.
DriverEvents == {EV0, EV1, EV2, EV3, EVX}

(***************************************************************************)
(* Initial state: StateMachine() constructed and create_task(manage()).    *)
(***************************************************************************)
Init ==
    /\ event_subscribers \in
         {f \in [DOMAIN ConstructedSubscribers ->
                    UNION {Orders(ConstructedSubscribers[e]) :
                              e \in DOMAIN ConstructedSubscribers}] :
            \A e \in DOMAIN f : Range(f[e]) = ConstructedSubscribers[e]
                                /\ Len(f[e]) = Cardinality(ConstructedSubscribers[e])}
    /\ active_states = {}
    /\ do_task = [s \in States |-> NoTask]
    /\ manage_task = [m \in Machines |-> NoTask]
    /\ state = [m \in Machines |-> initial(m)]
    /\ history_state = [m \in Machines |-> NoState]
    /\ event_queue = [m \in Machines |-> <<>>]
    /\ getters = [m \in Machines |-> <<>>]
    /\ x = 0
    /\ tasks = [i \in TaskIds |->
                  IF i = RootTask THEN NewTask("manage", StateMachine)
                  ELSE FreeTask]
    /\ ready = <<RootTask>>
    /\ published = 0
    /\ driver = "running"
    /\ entered = {}
    /\ landed = [m \in Machines |-> NoState]
    /\ exitedFrom = [m \in Machines |-> NoState]
    /\ resumeFrom = [m \in Machines |-> NoState]
    /\ staleFired = FALSE
    /\ subscriptions =
         [p \in (EV0..EVX) \X Machines |->
            IF p[1] \in DOMAIN ConstructedSubscribers
               /\ p[2] \in ConstructedSubscribers[p[1]]
            THEN 1 ELSE 0]
    /\ exitRuns = [s \in States |-> 0]
    /\ scriptPos = 0

(***************************************************************************)
(* Actions.                                                                *)
(***************************************************************************)
\* The event loop runs the next ready step.
Step ==
    /\ ready # <<>>
    /\ Becomes(Collect(StepTask(Cur)))
    /\ UNCHANGED <<published, driver, scriptPos>>

\* The driver calls publish(e).  An event without an entry in
\* _event_subscribers raises KeyError in the driver.
Publish(e) ==
    /\ driver = "running"
    /\ published < MaxPublish
    /\ published' = published + 1
    /\ IF e \in DOMAIN event_subscribers
       THEN /\ \A q \in Range(event_subscribers[e]) :
                    Len(event_queue[q]) < MaxQueue
            /\ Becomes(Collect(publish(Cur, e)))
            /\ driver' = driver
            /\ scriptPos' =
                 IF /\ scriptPos >= 0
                    /\ scriptPos < Len(Script)
                    /\ Settled
                    /\ e = Script[scriptPos + 1]
                 THEN scriptPos + 1 ELSE -1
       ELSE /\ driver' = "KeyError"
            /\ UNCHANGED <<progVars, scriptPos>>

\* The driver calls manage_task.cancel() and awaits the task.
CancelRoot ==
    /\ driver = "running"
    /\ Becomes(Collect(CancelTask(Cur, RootTask).st))
    /\ driver' = "awaiting"
    /\ UNCHANGED <<published, scriptPos>>

\* The awaited root task is done: the driver passes over a CancelledError;
\* anything else the task raised is raised in the driver.
DriverResume ==
    /\ driver = "awaiting"
    /\ tasks[RootTask].status # "pending"
    /\ driver' = IF tasks[RootTask].status = "error" THEN "NameError" ELSE "done"
    /\ UNCHANGED <<progVars, published, scriptPos>>

Next ==
    \/ Step
    \/ \E e \in DriverEvents : Publish(e)
    \/ CancelRoot
    \/ DriverResume

Spec == Init /\ [][Next]_vars

(***************************************************************************)
(* The event bus on its own: between create_task(manage()) and its first   *)
(* await the driver runs without the event loop taking a step, and there   *)
(* it may call subscribe_to and publish any number of times.               *)
(***************************************************************************)
\* The sets of events and the queues the driver subscribes with, and the
\* events it publishes.
SubscribeSets == {{EV0}, {EV2, EVX}}

SubscribeQueues == {StateMachineA}

BusEvents == {EV0, EV2, EVX}

\* The driver calls subscribe_to(events, q).
Subscribe(events, q) ==
    /\ driver = "running"
    /\ \A e \in events : subscriptions[<<e, q>>] < MaxSubscribe
    /\ LET new == subscribe_to(SetsOf(event_subscribers), events, q)
       IN  event_subscribers' \in
             {f \in IterationOrders(new) :
                \A e \in DOMAIN event_subscribers :
                    new[e] = Range(event_subscribers[e])
                        => f[e] = event_subscribers[e]}
    /\ subscriptions' =
          [p \in DOMAIN subscriptions |->
              IF p[1] \in events /\ p[2] = q
              THEN subscriptions[p] + 1 ELSE subscriptions[p]]
    /\ UNCHANGED <<active_states, do_task, manage_task, state, history_state,
                   event_queue, getters, x, tasks, ready, entered, landed,
                   exitedFrom, resumeFrom, staleFired, exitRuns, published,
                   driver, scriptPos>>

BusNext ==
    \/ \E events \in SubscribeSets : \E q \in SubscribeQueues :
          Subscribe(events, q)
    \/ \E e \in BusEvents : Publish(e)

BusSpec == Init /\ [][BusNext]_vars

(***************************************************************************)
(* Notions the properties below share.                                     *)
(***************************************************************************)
\* The classes in the registry, by name: State.active_states().
ActiveNames == {r.cls : r \in active_states}

\* State s has a running activity: a task of its _do that is not done.
Running(s) ==
    \E t \in TaskIds :
        /\ tasks[t].kind \in {"sdo", "mdo"}
        /\ tasks[t].owner = s
        /\ tasks[t].status = "pending"

\* The task pool of the model is never exhausted: no step is cut short by it.
PoolSuffices == ready # <<>> => ~StepTask(Cur).overflow

(***************************************************************************)
(* C1.  A state is in the Active-State Registry if and only if its enter() *)
(* has completed and its exit() has not completed since.                   *)
(***************************************************************************)
C1_RegistryIffEntered == active_states = {TypeOf(s) : s \in entered}

(***************************************************************************)
(* C2.  Once the root has entered the destination of a transition away     *)
(* from a composite sub-state, and for as long as that destination is its  *)
(* active sub-state, the composite that was left and all its sub-states    *)
(* have completed exit and none of them has a running activity.            *)
(***************************************************************************)
C2_OldBranchUnwound ==
    \A m, n \in {StateMachineA, StateMachineB} :
        (m # n /\ state[StateMachine] = n /\ n \in entered)
            => \A s \in SubStates(m) \cup {m} : s \notin entered /\ ~Running(s)

(***************************************************************************)
(* C3.  While the driver follows the test's script, publishing each event  *)
(* only once processing has settled, the registry after the k-th event of  *)
(* the script is the k-th set the test expects (the driver has not yet     *)
(* cancelled the root, which the test does last).                          *)
(***************************************************************************)
Expected ==
    << {StateMachineA, StateAA}, {StateMachineB, StateBA},
       {StateMachineA, StateAB}, {StateMachineB, StateBA},
       {StateMachineB, StateBB}, {StateMachineA, StateAB},
       {StateMachineB, StateBB}, {StateMachineA, StateAB},
       {StateMachineB, StateBA}, {StateMachineA, StateAB} >>

C3_ScriptedRun ==
    (driver = "running" /\ scriptPos >= 0 /\ Settled)
        => ActiveNames = Expected[scriptPos + 1]

(***************************************************************************)
(* C4.  Each re-entry of the history machine StateMachineB lands on the    *)
(* sub-state that was active when B was last transitioned away from, or on *)
(* the default destination StateBA when that sub-state was B's final       *)
(* state: once B's activity has run, its manage() has entered that state.  *)
(***************************************************************************)
ExpectedLanding(m) ==
    IF resumeFrom[m] = final(m) THEN StateBA ELSE resumeFrom[m]

C4_HistoryLanding ==
    LET m == StateMachineB
    IN  resumeFrom[m] # NoState =>
          /\ landed[m] # NoState => landed[m] = ExpectedLanding(m)
          /\ (do_task[m] # NoTask /\ tasks[do_task[m]].status \in {"ok", "error"})
                => landed[m] # NoState

(***************************************************************************)
(* C5.  A machine without history has history_state None in every state,   *)
(* and when its supervising loop starts (its manage task is created and    *)
(* has not run yet) its active sub-state reference is its initial state.   *)
(***************************************************************************)
C5_NoHistoryStartsAtInitial ==
    \A m \in Machines :
        ~has_history(m) =>
            /\ history_state[m] = NoState
            /\ \A t \in TaskIds :
                  (tasks[t].kind = "manage" /\ tasks[t].owner = m
                      /\ tasks[t].pc = "start")
                  => state[m] = initial(m)

\* StateMachineA's loop starts again after A was left from StateAA, StateAB
\* or its final state.
C5_Witness ==
    \E t \in TaskIds :
        /\ tasks[t].kind = "manage"
        /\ tasks[t].owner = StateMachineA
        /\ tasks[t].pc = "start"
        /\ tasks[t].status = "pending"
        /\ resumeFrom[StateMachineA] \in {StateAA, StateAB, StateMachineA_f}

(***************************************************************************)
(* C6.  Once the driver has cancelled the root's supervising task and its  *)
(* await of that task has returned, no state has a running activity and    *)
(* the registry is empty.                                                  *)
(***************************************************************************)
C6_CancelTerminatesAll ==
    driver = "done" =>
        /\ active_states = {}
        /\ \A s \in States : ~Running(s)

(***************************************************************************)
(* C7.  A completion event published by a final state's enter() is         *)
(* observed by the root: while the driver has not cancelled the root, no   *)
(* EVAF or EVBF is left in the root's queue once processing has settled.   *)
(***************************************************************************)
C7_CompletionObserved ==
    (driver = "running" /\ Settled) =>
        \A i \in DOMAIN event_queue[StateMachine] :
            event_queue[StateMachine][i].ev \notin {EVAF, EVBF}

(***************************************************************************)
(* C8.  publish(event) for an event nobody subscribed to raises nothing.   *)
(***************************************************************************)
C8_PublishUnknownIsNoOp == driver # "KeyError"

(***************************************************************************)
(* C9.  Whenever all event queues are empty and processing has settled     *)
(* (and the driver has not cancelled the root), the registry holds exactly *)
(* one sub-machine of the root and exactly one non-composite sub-state of  *)
(* that sub-machine.                                                       *)
(***************************************************************************)
Quiescent ==
    /\ driver = "running"
    /\ Settled
    /\ \A m \in Machines : event_queue[m] = <<>>

C9_OneLeafPath ==
    Quiescent =>
        \E m \in {StateMachineA, StateMachineB} :
            \E s \in SubStates(m) : ActiveNames = {m, s}

(***************************************************************************)
(* C10.  No event that was already in a machine's queue when the machine   *)
(* was entered triggers a transition of that machine.                      *)
(***************************************************************************)
C10_NoStaleEventFires == ~staleFired

(***************************************************************************)
(* C11.  subscribe_to is idempotent per (event, queue): an event's         *)
(* subscribers hold a queue exactly once if it subscribed to the event one *)
(* or more times, and not at all otherwise; and each publish(event) that   *)
(* returns appends exactly one copy of the event to every queue subscribed *)
(* to it and nothing to any other queue.                                   *)
(***************************************************************************)
SubscribedOnce ==
    \A p \in DOMAIN subscriptions :
        LET qs == IF p[1] \in DOMAIN event_subscribers
                  THEN event_subscribers[p[1]] ELSE <<>>
        IN  Cardinality({i \in DOMAIN qs : qs[i] = p[2]})
                = IF subscriptions[p] >= 1 THEN 1 ELSE 0

PublishDelivers ==
    (published' = published + 1 /\ driver' = "running") =>
        \E e \in DOMAIN event_subscribers :
            \A q \in Machines :
                event_queue'[q] =
                    IF q \in Range(event_subscribers[e])
                    THEN Append(event_queue[q], [ev |-> e, stale |-> FALSE])
                    ELSE event_queue[q]

C11_SubscribeOncePublishOnce == []SubscribedOnce /\ [][PublishDelivers]_vars

\* StateMachineA's queue subscribed to EV2 twice and one publish(EV2) has put
\* one EV2 in it.
C11_Witness ==
    /\ subscriptions[<<EV2, StateMachineA>>] >= 2
    /\ published = 1
    /\ event_queue[StateMachineA] = <<[ev |-> EV2, stale |-> FALSE]>>

(***************************************************************************)
(* C12.  Every exit() returns: once processing has settled (and the driver *)
(* has not cancelled the root) no manage task is still suspended in the    *)
(* exit() of a transition it started.                                      *)
(***************************************************************************)
C12_ExitReturns ==
    (driver = "running" /\ Settled) =>
        \A t \in TaskIds :
            tasks[t].status = "pending"
                => tasks[t].pc \notin {"exit_sub", "exit_cur"}

(***************************************************************************)
(* C13.  Once exit() of a sub-machine has returned, and until the machine  *)
(* is entered again, none of its sub-states has a running activity.        *)
(***************************************************************************)
C13_NoDescendantRuns ==
    \A m \in {StateMachineA, StateMachineB} :
        m \notin entered => \A s \in SubStates(m) : ~Running(s)

(***************************************************************************)
(* C14.  State.transition_to takes its steps in one order and without      *)
(* suspending after its exit() has returned: whenever another task can     *)
(* run, a call has either not got past its exit(), or it has taken exit,   *)
(* the action if and only if one was passed, enter, and the start of the   *)
(* activity if and only if the destination is not final, in that order.    *)
(***************************************************************************)
StepsOf(act, dst) ==
    <<"exit">> \o (IF act THEN <<"action">> ELSE <<>>) \o <<"enter">>
        \o (IF is_final(dst) THEN <<>> ELSE <<"do">>)

C14_TransitionOrder ==
    \A t \in TaskIds :
        tasks[t].kind = "manage" =>
            \/ tasks[t].steps = <<>>
            \/ tasks[t].steps = StepsOf(tasks[t].act, tasks[t].dst)

\* A transition with an action into a final state, and one without an action
\* into a state with an activity, have completed.
C14_Witness ==
    /\ \E t \in TaskIds :
          tasks[t].steps = <<"exit", "action", "enter">>
    /\ \E t \in TaskIds :
          tasks[t].steps = <<"exit", "enter", "do">>

(***************************************************************************)
(* C15.  At most one sub-state of a machine is entered or has a running    *)
(* activity.                                                               *)
(***************************************************************************)
C15_OneSubStateAtATime ==
    \A m \in Machines :
        Cardinality({s \in SubStates(m) : s \in entered \/ Running(s)}) <= 1

(***************************************************************************)
(* C16.  A final state never has an activity: its do_task is never set and *)
(* no task of its _do runs.  No machine's history_state is a final state,  *)
(* and leaving any machine from its final state records None.              *)
(***************************************************************************)
C16_FinalStatesIdle ==
    /\ \A s \in States :
          is_final(s) => do_task[s] = NoTask /\ ~Running(s)
    /\ \A m \in Machines : ~is_final(history_state[m])
    /\ \A m \in Machines :
          \A s \in SubStates(m) : is_final(s) => HistoryOf(m, s) = NoState

\* StateMachineA has been in its final state and has been left from it.
C16_Witness ==
    /\ exitedFrom[StateMachineA] = StateMachineA_f
    /\ history_state[StateMachineA] = NoState
    /\ do_task[StateMachineA_f] = NoTask

(***************************************************************************)
(* C17.  An event that matches no transition from the machine's active     *)
(* sub-state is consumed and leaves every machine's active sub-state and   *)
(* history state and the registry as they were.  In the root, EV0 and EV1  *)
(* lead nowhere when guard() returns false, while a completion event leads *)
(* to the other sub-machine whatever guard() returns.                      *)
(***************************************************************************)
\* Event e has no transition from sub-state s of machine m.
Unmatched(m, s, e) ==
    CASE m = StateMachine ->
            ~ \/ s = StateMachineA /\ e \in {EV0, EVAF}
              \/ s = StateMachineB /\ e \in {EV1, EVBF}
      [] m = StateMachineA ->
            ~ \/ s = StateAA /\ e = EV1
              \/ s = StateAB /\ e \in {EV1, EV2}
      [] m = StateMachineB ->
            ~ \/ s = StateBA /\ e \in {EV3, EV4}
              \/ s = StateBB /\ e = EV3

GuardRespected ==
    /\ \A s \in SubStates(StateMachine) : \A e \in {EV0, EV1} :
          GuardedTable(StateMachine, s, e, FALSE) = NoState
    /\ \A g \in BOOLEAN :
          /\ GuardedTable(StateMachine, StateMachineA, EVAF, g) = StateMachineB
          /\ GuardedTable(StateMachine, StateMachineB, EVBF, g) = StateMachineA

\* The next step of the event loop resumes a manage loop at its
\* event_queue.get(), and no event in the queue matches a transition.
UnmatchedOnly ==
    /\ ready # <<>>
    /\ LET t == Head(ready)
           m == tasks[t].owner
       IN  /\ tasks[t].kind = "manage"
           /\ tasks[t].pc = "get"
           /\ Delivered(Cur, t) = "none"
           /\ event_queue[m] # <<>>
           /\ \A i \in DOMAIN event_queue[m] :
                 Unmatched(m, state[m], event_queue[m][i].ev)

ConsumedWithoutEffect ==
    (UnmatchedOnly /\ ready' = Tail(ready)) =>
        /\ event_queue'[tasks[Head(ready)].owner] = <<>>
        /\ state' = state
        /\ history_state' = history_state
        /\ active_states' = active_states

C17_UnmatchedEventIgnored ==
    []GuardRespected /\ [][ConsumedWithoutEffect]_vars

\* One event was published, it was EV2, and StateMachineA has taken it from
\* its queue in StateAA.
C17_Witness ==
    /\ driver = "running"
    /\ published = 1
    /\ Settled
    /\ \A m \in Machines : event_queue[m] = <<>>
    /\ state[StateMachineA] = StateAA
    /\ StateAA \in entered

(***************************************************************************)
(* C18.  A call of exit() runs the state's exit_() once, not more.         *)
(***************************************************************************)
C18_ExitBehaviourOnce == \A s \in States : exitRuns[s] <= 1

(***************************************************************************)
(* C19.  A machine with history never records its initial placeholder as   *)
(* history_state, and at every quiescent instant the active sub-state of   *)
(* the root's active sub-machine is one of its real sub-states.            *)
(***************************************************************************)
RealSubStates(m) == SubStates(m) \ {initial(m), final(m)}

C19_NeverParkedInPlaceholder ==
    /\ \A m \in Machines :
          has_history(m) => history_state[m] # initial(m)
    /\ (Quiescent /\ state[StateMachine] \in {StateMachineA, StateMachineB})
          => state[state[StateMachine]] \in RealSubStates(state[StateMachine])

(***************************************************************************)
(* C20.  A machine's active sub-state reference is never None.  Once        *)
(* exit() of a sub-machine has returned, and until the machine is entered  *)
(* again, the reference is the machine's initial state and history_state   *)
(* is what Machine.transition_to recorded before the exit.                 *)
(***************************************************************************)
C20_ExitResetsToInitial ==
    \A m \in Machines :
        /\ state[m] # NoState
        /\ (m \notin entered /\ exitRuns[m] >= 1) =>
              /\ state[m] = initial(m)
              /\ history_state[m] = HistoryOf(m, exitedFrom[m])

\* The root has left StateMachineA from a real sub-state and then
\* StateMachineB, whose recorded history is kept.
C20_Witness ==
    /\ StateMachineB \notin entered
    /\ exitRuns[StateMachineB] >= 1
    /\ history_state[StateMachineB] # NoState
    /\ exitedFrom[StateMachineA] \in {StateAA, StateAB}
    /\ state[StateMachineA] \in {StateAA, StateAB}

=============================================================================
